---- MODULE Spec2Model ----
(***************************************************************************)
(* Model of the stock/price synchronisation scripts seller.py (Ozon) and   *)
(* market.py (Yandex.Market).                                              *)
(*                                                                         *)
(* Python strings whose characters matter (quantities, prices) are         *)
(* sequences of one-character strings; identifiers (offer ids, codes,      *)
(* campaign ids) are TLA+ strings.  A Python list is a sequence, a dict a  *)
(* record.                                                                 *)
(***************************************************************************)
EXTENDS Integers, Sequences, FiniteSets, TLC

VARIABLES
    prog,            \* the entry point under execution
    pc,              \* its position
    raised,          \* the exception that ended it ("none" when there is none)
    args,            \* a function run on its own: the arguments of the call
    ret,             \* a function run on its own: the value it returned
    server,          \* account id -> the list responses the marketplace will give
    req,             \* page requests made by the running get_offer_ids
    some_prod,       \* get_offer_ids: the response being processed
    product_list,    \* get_offer_ids: items accumulated
    last_id,         \* get_offer_ids: cursor handed back to the marketplace
    feed,            \* the rows of the remote spreadsheet
    watch_remnants,  \* main: rows returned by download_stock
    offer_ids,       \* main: the offer-id list (mutated by create_stocks)
    stocks, prices,  \* main: the payloads
    todo,            \* main: batches of the running for-loop not yet submitted
    campaign,        \* market.main: the campaign pass under execution
    calls,           \* every HTTP request issued to a marketplace, in order
    printed,         \* lines printed by the top-level handler
    unawaited        \* coroutine objects created and never run

fnVars   == <<args, ret>>
listVars == <<server, req, some_prod, product_list, last_id>>
runVars  == <<feed, watch_remnants, offer_ids, stocks, prices, todo, campaign,
              calls, printed, unawaited>>
vars     == <<prog, pc, raised, args, ret, server, req, some_prod,
              product_list, last_id, feed, watch_remnants, offer_ids, stocks,
              prices, todo, campaign, calls, printed, unawaited>>

-----------------------------------------------------------------------------
(* Bounds of the model.                                                    *)

MaxPriceLen == 3     \* longest generated price string
MaxLen      == 4     \* longest list handed to divide
MaxChunk    == 3     \* largest chunk size handed to divide
MaxFeed     == 2     \* most rows of a feed handed to create_stocks/create_prices
MaxOffers   == 2     \* longest offer-id list handed to them
MaxPages    == 2     \* most non-final responses of a list endpoint
MaxPageItems == 2    \* most items of one response
MaxRunFeed  == 2     \* most rows of the feed of a run of main
MaxCatalogue == 2    \* most offers of a catalogue listed in a run of main

-----------------------------------------------------------------------------
(* Strings.                                                                *)

Digits == <<"0", "1", "2", "3", "4", "5", "6", "7", "8", "9">>

IsDigit(c) == \E i \in 1..10 : Digits[i] = c

DigitVal(c) == (CHOOSE i \in 1..10 : Digits[i] = c) - 1

Range(s) == {s[i] : i \in DOMAIN s}

SeqsUpTo(S, k) == UNION {[1..m -> S] : m \in 0..k}

\* str.split(sep): the pieces between the occurrences of the one-character
\* separator; always at least one piece.
RECURSIVE split(_, _)
split(s, sep) ==
    IF \A i \in DOMAIN s : s[i] # sep
    THEN <<s>>
    ELSE LET i == CHOOSE k \in DOMAIN s :
                      /\ s[k] = sep
                      /\ \A j \in 1..(k - 1) : s[j] # sep
         IN  <<SubSeq(s, 1, i - 1)>> \o split(SubSeq(s, i + 1, Len(s)), sep)

\* re.sub("[^0-9]", "", s): every character outside 0-9 is deleted.
RECURSIVE re_sub_non_digits(_)
re_sub_non_digits(s) ==
    IF s = <<>> THEN <<>>
    ELSE (IF IsDigit(Head(s)) THEN <<Head(s)>> ELSE <<>>)
             \o re_sub_non_digits(Tail(s))

\* price_conversion without the split: the digits of the whole string.
price_conversion_all_pieces(p) == re_sub_non_digits(p)

\* seller.price_conversion
price_conversion(p) == re_sub_non_digits(split(p, ".")[1])

\* str.strip() for the blank character.
RECURSIVE lstrip(_)
lstrip(s) == IF s # <<>> /\ Head(s) = " " THEN lstrip(Tail(s)) ELSE s

RECURSIVE rstrip(_)
rstrip(s) ==
    IF s # <<>> /\ s[Len(s)] = " " THEN rstrip(SubSeq(s, 1, Len(s) - 1)) ELSE s

RECURSIVE DigitsValue(_, _)
DigitsValue(s, acc) ==
    IF s = <<>> THEN acc
    ELSE DigitsValue(Tail(s),
                     IF Head(s) = "_" THEN acc ELSE 10 * acc + DigitVal(Head(s)))

\* int(s) for a str: blanks stripped, an optional sign, then decimal digits
\* that single underscores may separate; anything else is a ValueError.
int(s) ==
    LET t    == rstrip(lstrip(s))
        neg  == t # <<>> /\ Head(t) = "-"
        body == IF t # <<>> /\ Head(t) \in {"-", "+"} THEN Tail(t) ELSE t
        ok   == /\ body # <<>>
                /\ \A i \in DOMAIN body : IsDigit(body[i]) \/ body[i] = "_"
                /\ IsDigit(body[1]) /\ IsDigit(body[Len(body)])
                /\ \A i \in 1..(Len(body) - 1) :
                       ~(body[i] = "_" /\ body[i + 1] = "_")
    IN  IF ok
        THEN [ok |-> TRUE,
              value |-> IF neg THEN 0 - DigitsValue(body, 0)
                        ELSE DigitsValue(body, 0)]
        ELSE [ok |-> FALSE, value |-> 0]

-----------------------------------------------------------------------------
(* Batching.                                                               *)

Min(a, b) == IF a < b THEN a ELSE b

\* range(0, len(lst), n), n > 0
range_starts(len, step) == {i \in 0..(len - 1) : i % step = 0}

\* divide that loses the short last slice.
divide_drop_tail(l, k) ==
    [c \in 1..(Len(l) \div k) |-> SubSeq(l, (c - 1) * k + 1, c * k)]

\* divide without the slicing: the whole list as one batch.
divide_whole(l, k) == IF l = <<>> THEN <<>> ELSE <<l>>

\* seller.divide, materialised by list(): one slice lst[i : i + n] per i of
\* range(0, len(lst), n), in increasing i.
divide(l, k) ==
    [c \in 1..Cardinality(range_starts(Len(l), k)) |->
        SubSeq(l, (c - 1) * k + 1, Min((c - 1) * k + k, Len(l)))]

-----------------------------------------------------------------------------
(* Reconciliation.  A feed row is a record with the columns Kod (the       *)
(* code, after str()), Kolichestvo (the quantity, after str()) and Tsena   *)
(* (the price string).  A cell pandas read as a number behaves as its      *)
(* str() here; the rows of the model hold strings only.                    *)

GT10 == <<">", "1", "0">>
ONE  == <<"1">>

\* x in s
Contains(s, x) == \E i \in DOMAIN s : s[i] = x

IndexOf(s, x) ==
    CHOOSE k \in DOMAIN s : s[k] = x /\ \A j \in 1..(k - 1) : s[j] # x

\* A remove that deletes nothing.
remove_nothing(s, x) == s

\* list.remove(x): the first occurrence of x is deleted.
remove(s, x) ==
    LET i == IndexOf(s, x)
    IN  [k \in 1..(Len(s) - 1) |-> IF k < i THEN s[k] ELSE s[k + 1]]

\* The quantity rule without its "1" case.
stock_count_plain(watch) ==
    IF watch.Kolichestvo = GT10 THEN [ok |-> TRUE, value |-> 100]
    ELSE int(watch.Kolichestvo)

\* create_stocks, the quantity of a matched row: ">10" is 100, "1" is 0,
\* anything else goes through int().
stock_count(watch) ==
    LET count == watch.Kolichestvo
    IN  IF count = GT10 THEN [ok |-> TRUE, value |-> 100]
        ELSE IF count = ONE THEN [ok |-> TRUE, value |-> 0]
        ELSE int(count)

seller_stock(id, count) == [offer_id |-> id, stock |-> count]

\* seller.create_stocks, the loop over the feed.  The result carries the
\* payload built so far, the caller's offer-id list as the loop left it and
\* the exception that ended the loop, if any.
RECURSIVE seller_stocks_loop(_, _, _)
seller_stocks_loop(rows, ids, acc) ==
    IF rows = <<>>
    THEN [stocks |-> acc, offer_ids |-> ids, error |-> "none"]
    ELSE LET watch == Head(rows)
         IN  IF Contains(ids, watch.Kod)
             THEN LET q == stock_count(watch)
                  IN  IF ~q.ok
                      THEN [stocks |-> acc, offer_ids |-> ids,
                            error |-> "ValueError"]
                      ELSE seller_stocks_loop(
                               Tail(rows), remove(ids, watch.Kod),
                               Append(acc, seller_stock(watch.Kod, q.value)))
             ELSE seller_stocks_loop(Tail(rows), ids, acc)

\* A create_stocks that works on a copy of the offer-id list: the caller's
\* list stays what it was.
seller_create_stocks_on_copy(rows, ids) ==
    LET r == seller_stocks_loop(rows, ids, <<>>)
    IN  IF r.error # "none"
        THEN [stocks |-> r.stocks, offer_ids |-> ids, error |-> r.error]
        ELSE [stocks |-> r.stocks \o
                  [i \in DOMAIN r.offer_ids |->
                      seller_stock(r.offer_ids[i], 0)],
              offer_ids |-> ids, error |-> "none"]

\* seller.create_stocks
seller_create_stocks(rows, ids) ==
    LET r == seller_stocks_loop(rows, ids, <<>>)
    IN  IF r.error # "none" THEN r
        ELSE [stocks |-> r.stocks \o
                  [i \in DOMAIN r.offer_ids |->
                      seller_stock(r.offer_ids[i], 0)],
              offer_ids |-> r.offer_ids, error |-> "none"]

market_stock(id, warehouse_id, count) ==
    [sku |-> id, warehouseId |-> warehouse_id,
     items |-> <<[count |-> count, type |-> "FIT", updatedAt |-> "date"]>>]

\* market.create_stocks, the loop over the feed.
RECURSIVE market_stocks_loop(_, _, _, _)
market_stocks_loop(rows, ids, warehouse_id, acc) ==
    IF rows = <<>>
    THEN [stocks |-> acc, offer_ids |-> ids, error |-> "none"]
    ELSE LET watch == Head(rows)
         IN  IF Contains(ids, watch.Kod)
             THEN LET q == stock_count(watch)
                  IN  IF ~q.ok
                      THEN [stocks |-> acc, offer_ids |-> ids,
                            error |-> "ValueError"]
                      ELSE market_stocks_loop(
                               Tail(rows), remove(ids, watch.Kod), warehouse_id,
                               Append(acc, market_stock(watch.Kod, warehouse_id,
                                                        q.value)))
             ELSE market_stocks_loop(Tail(rows), ids, warehouse_id, acc)

\* market.create_stocks
market_create_stocks(rows, ids, warehouse_id) ==
    LET r == market_stocks_loop(rows, ids, warehouse_id, <<>>)
    IN  IF r.error # "none" THEN r
        ELSE [stocks |-> r.stocks \o
                  [i \in DOMAIN r.offer_ids |->
                      market_stock(r.offer_ids[i], warehouse_id, 0)],
              offer_ids |-> r.offer_ids, error |-> "none"]

seller_price(watch) ==
    [auto_action_enabled |-> "UNKNOWN", currency_code |-> "RUB",
     offer_id |-> watch.Kod, old_price |-> "0",
     price |-> price_conversion(watch.Tsena)]

\* create_prices without the membership test: a price for every row.
seller_create_prices_unfiltered(rows, ids) ==
    [prices |-> [i \in DOMAIN rows |-> seller_price(rows[i])],
     error |-> "none"]

\* seller.create_prices
RECURSIVE seller_create_prices(_, _)
seller_create_prices(rows, ids) ==
    IF rows = <<>>
    THEN [prices |-> <<>>, error |-> "none"]
    ELSE LET watch == Head(rows)
             rest  == seller_create_prices(Tail(rows), ids)
         IN  IF Contains(ids, watch.Kod)
             THEN [prices |-> <<seller_price(watch)>> \o rest.prices,
                   error |-> rest.error]
             ELSE rest

market_price(id, value) ==
    [id |-> id, price |-> [value |-> value, currencyId |-> "RUR"]]

\* market.create_prices: int() of the converted price raises ValueError on
\* the empty string, and the loop ends there.
RECURSIVE market_prices_loop(_, _, _)
market_prices_loop(rows, ids, acc) ==
    IF rows = <<>>
    THEN [prices |-> acc, error |-> "none"]
    ELSE LET watch == Head(rows)
         IN  IF Contains(ids, watch.Kod)
             THEN LET v == int(price_conversion(watch.Tsena))
                  IN  IF ~v.ok
                      THEN [prices |-> acc, error |-> "ValueError"]
                      ELSE market_prices_loop(
                               Tail(rows), ids,
                               Append(acc, market_price(watch.Kod, v.value)))
             ELSE market_prices_loop(Tail(rows), ids, acc)

\* A create_prices that takes a matched id off the list as create_stocks
\* does: one price per id, that of the first row with the code.
RECURSIVE market_prices_loop_once(_, _, _)
market_prices_loop_once(rows, ids, acc) ==
    IF rows = <<>>
    THEN [prices |-> acc, error |-> "none"]
    ELSE LET watch == Head(rows)
         IN  IF Contains(ids, watch.Kod)
             THEN LET v == int(price_conversion(watch.Tsena))
                  IN  IF ~v.ok
                      THEN [prices |-> acc, error |-> "ValueError"]
                      ELSE market_prices_loop_once(
                               Tail(rows), remove(ids, watch.Kod),
                               Append(acc, market_price(watch.Kod, v.value)))
             ELSE market_prices_loop_once(Tail(rows), ids, acc)

market_create_prices_once(rows, ids) ==
    market_prices_loop_once(rows, ids, <<>>)

\* market.create_prices
market_create_prices(rows, ids) == market_prices_loop(rows, ids, <<>>)

-----------------------------------------------------------------------------
(* Values the variables of a part of the program hold while another part   *)
(* runs on its own.                                                        *)

NoResponse == [items |-> <<>>, total |-> 0, last_id |-> ""]
NoPage     == [offerMappingEntries |-> <<>>, paging |-> [nextPageToken |-> ""]]

FnIdle   == args = <<>> /\ ret = <<>>
ListIdle == /\ server = <<>> /\ req = 0 /\ some_prod = NoResponse
            /\ product_list = <<>> /\ last_id = ""
RunIdle  == /\ feed = <<>> /\ watch_remnants = <<>> /\ offer_ids = <<>>
            /\ stocks = <<>> /\ prices = <<>> /\ todo = <<>> /\ campaign = ""
            /\ calls = <<>> /\ printed = <<>> /\ unawaited = 0

-----------------------------------------------------------------------------
(* price_conversion run on its own.                                        *)

PriceChars == {"5", "0", ".", "'", "r"}

Price5990  == <<"5", "'", "9", "9", "0", ".", "0", "0", " ", "r", "u", "b", ".">>
Price12890 == <<"1", "2", ",", "8", "9", "0", ".", "5", "0">>

PriceStrings == SeqsUpTo(PriceChars, MaxPriceLen) \cup {Price5990, Price12890}

InitPrice ==
    /\ prog = "price_conversion" /\ pc = "call" /\ raised = "none"
    /\ args \in [price : PriceStrings]
    /\ ret = <<>>
    /\ ListIdle /\ RunIdle

CallPriceConversion ==
    /\ prog = "price_conversion" /\ pc = "call"
    /\ ret' = price_conversion(args.price)
    /\ pc' = "returned"
    /\ UNCHANGED <<prog, raised, args, listVars, runVars>>

NextPrice == CallPriceConversion

SpecPrice == InitPrice /\ [][NextPrice]_vars

-----------------------------------------------------------------------------
(* divide run on its own.                                                  *)

Elems == {"a", "b"}

InitDivide ==
    /\ prog = "divide" /\ pc = "call" /\ raised = "none"
    /\ args \in [lst : SeqsUpTo(Elems, MaxLen), n : 0..MaxChunk]
    /\ ret = <<>>
    /\ ListIdle /\ RunIdle

\* list(divide(lst, n)); range() with a step of 0 raises ValueError.
CallDivide ==
    /\ prog = "divide" /\ pc = "call"
    /\ \/ /\ args.n > 0
          /\ ret' = divide(args.lst, args.n)
          /\ pc' = "returned"
          /\ UNCHANGED raised
       \/ /\ args.n = 0
          /\ raised' = "ValueError"
          /\ pc' = "raised"
          /\ UNCHANGED ret
    /\ UNCHANGED <<prog, args, listVars, runVars>>

NextDivide == CallDivide

SpecDivide == InitDivide /\ [][NextDivide]_vars

-----------------------------------------------------------------------------
(* create_stocks and create_prices run on their own, on a feed and an      *)
(* offer-id list of the caller.                                            *)

FeedCodes  == {"001", "002", "003"}
OfferCodes == {"001", "002"}

\* (Kolichestvo, Tsena) of a row
Cells == {
    <<GT10, Price5990>>,
    <<ONE, Price12890>>,
    <<(<<"1", "0">>), Price5990>>,
    <<(<<"4", "2">>), (<<".", "5", "0">>)>>,
    <<(<<"x">>), (<<"1", "0", "0">>)>> }

Rows == {[Kod |-> c, Kolichestvo |-> q[1], Tsena |-> q[2]] :
            c \in FeedCodes, q \in Cells}

InitReconcile ==
    /\ prog = "reconcile" /\ pc = "call" /\ raised = "none"
    /\ args \in [watch_remnants : SeqsUpTo(Rows, MaxFeed),
                  offer_ids : SeqsUpTo(OfferCodes, MaxOffers)]
    /\ ret = <<>>
    /\ ListIdle
    /\ feed = <<>> /\ watch_remnants = args.watch_remnants
    /\ offer_ids = args.offer_ids
    /\ stocks = <<>> /\ prices = <<>> /\ todo = <<>> /\ campaign = ""
    /\ calls = <<>> /\ printed = <<>> /\ unawaited = 0

\* The caller's view of a call that returned or raised.
Returned(fn, value, ids, error) ==
    /\ prog' = fn
    /\ ret' = value
    /\ offer_ids' = ids
    /\ raised' = error
    /\ pc' = IF error = "none" THEN "returned" ELSE "raised"
    /\ UNCHANGED <<args, listVars, feed, watch_remnants, stocks, prices, todo,
                   campaign, calls, printed, unawaited>>

CallSellerCreateStocks ==
    /\ prog = "reconcile" /\ pc = "call"
    /\ LET r == seller_create_stocks(watch_remnants, offer_ids)
       IN  Returned("seller.create_stocks", r.stocks, r.offer_ids, r.error)

CallMarketCreateStocks ==
    /\ prog = "reconcile" /\ pc = "call"
    /\ LET r == market_create_stocks(watch_remnants, offer_ids,
                                     "WAREHOUSE_FBS_ID")
       IN  Returned("market.create_stocks", r.stocks, r.offer_ids, r.error)

CallSellerCreatePrices ==
    /\ prog = "reconcile" /\ pc = "call"
    /\ LET r == seller_create_prices(watch_remnants, offer_ids)
       IN  Returned("seller.create_prices", r.prices, offer_ids, r.error)

CallMarketCreatePrices ==
    /\ prog = "reconcile" /\ pc = "call"
    /\ LET r == market_create_prices(watch_remnants, offer_ids)
       IN  Returned("market.create_prices", r.prices, offer_ids, r.error)

NextReconcile ==
    \/ CallSellerCreateStocks
    \/ CallMarketCreateStocks
    \/ CallSellerCreatePrices
    \/ CallMarketCreatePrices

SpecReconcile == InitReconcile /\ [][NextReconcile]_vars

-----------------------------------------------------------------------------
(* The marketplace's list endpoints and get_offer_ids.                     *)
(*                                                                         *)
(* server[a] is the sequence of responses account a's list endpoint gives, *)
(* the k-th to the k-th request of a get_offer_ids call (the cursor the    *)
(* client hands back is the one the previous response carried).  Once the  *)
(* sequence is used up the endpoint has nothing more to return: an empty   *)
(* page (Ozon: with the total and cursor of the last response; Yandex:     *)
(* without a next-page token).                                             *)

SellerProgs == {"seller.main", "seller.get_offer_ids"}
MarketProgs == {"market.main", "market.get_offer_ids"}
Mains       == {"seller.main", "market.main"}

\* The account the running program talks to.
Account == IF prog \in SellerProgs THEN "CLIENT_ID" ELSE campaign

\* The response to the k-th request of a listing.
SellerResponse(a, k) ==
    IF k <= Len(server[a]) THEN server[a][k]
    ELSE IF server[a] = <<>> THEN NoResponse
    ELSE [items |-> <<>>, total |-> server[a][Len(server[a])].total,
          last_id |-> server[a][Len(server[a])].last_id]

MarketResponse(a, k) ==
    IF k <= Len(server[a]) THEN server[a][k]
    ELSE NoPage

NetworkErrors == {"ReadTimeout", "ConnectionError", "HTTPError"}

\* The line the handler of main prints for an exception.
Tag(kind) ==
    IF kind = "ReadTimeout" THEN "Prevysheno vremya ozhidaniya..."
    ELSE IF kind = "ConnectionError" THEN "Oshibka soedineniya"
    ELSE "ERROR_2"

\* Whether the statement at pc is inside the try block of the running main.
InTry == prog = "seller.main" \/ (prog = "market.main" /\ pc # "download")

\* An exception leaves the running statement: the handler of main catches it
\* and prints its line; outside the try block it ends the process; a
\* function run on its own passes it to its caller.
Raise(kind) ==
    /\ raised' = kind
    /\ IF prog \in Mains
       THEN IF InTry
            THEN pc' = "caught" /\ printed' = Append(printed, Tag(kind))
            ELSE pc' = "crashed" /\ UNCHANGED printed
       ELSE pc' = "raised" /\ UNCHANGED printed

\* get_offer_ids returns ids to its caller.
ReturnOfferIds(ids) ==
    IF prog \in Mains
    THEN /\ offer_ids' = ids
         /\ pc' = IF prog = "seller.main" THEN "download" ELSE "create_stocks"
         /\ UNCHANGED ret
    ELSE /\ ret' = ids
         /\ pc' = "returned"
         /\ UNCHANGED offer_ids

\* seller.get_offer_ids, line 78: one call of get_product_list.
SellerGetProductList ==
    /\ prog \in SellerProgs /\ pc = "list_request"
    /\ \/ /\ some_prod' = SellerResponse(Account, req + 1)
          /\ req' = Min(req + 1, Len(server[Account]) + 1)
          /\ pc' = "list_check"
          /\ UNCHANGED <<raised, printed>>
       \/ /\ \E kind \in NetworkErrors : Raise(kind)
          /\ UNCHANGED <<some_prod, req>>
    /\ UNCHANGED <<prog, fnVars, server, product_list, last_id, feed,
                   watch_remnants, offer_ids, stocks, prices, todo, campaign,
                   calls, unawaited>>

\* seller.get_offer_ids, line 82: total == len(product_list), after the
\* extend of line 79.
SellerTotalReached ==
    some_prod.total = Len(product_list \o some_prod.items)

\* seller.get_offer_ids, lines 79-87: the rest of the loop body and, once the
\* loop is left, the ids of the accumulated items.
SellerCheckTotal ==
    /\ prog \in SellerProgs /\ pc = "list_check"
    /\ product_list' = product_list \o some_prod.items
    /\ last_id' = some_prod.last_id
    /\ IF SellerTotalReached
       THEN ReturnOfferIds([i \in DOMAIN product_list' |->
                               product_list'[i].offer_id])
       ELSE pc' = "list_request" /\ UNCHANGED <<ret, offer_ids>>
    /\ UNCHANGED <<prog, raised, args, server, req, some_prod, feed,
                   watch_remnants, stocks, prices, todo, campaign, calls,
                   printed, unawaited>>

\* market.get_offer_ids, line 140: one call of get_product_list.
MarketGetProductList ==
    /\ prog \in MarketProgs /\ pc = "list_request"
    /\ \/ /\ some_prod' = MarketResponse(Account, req + 1)
          /\ req' = Min(req + 1, Len(server[Account]) + 1)
          /\ pc' = "list_check"
          /\ UNCHANGED <<raised, printed>>
       \/ /\ \E kind \in NetworkErrors : Raise(kind)
          /\ UNCHANGED <<some_prod, req>>
    /\ UNCHANGED <<prog, fnVars, server, product_list, last_id, feed,
                   watch_remnants, offer_ids, stocks, prices, todo, campaign,
                   calls, unawaited>>

\* market.get_offer_ids, lines 141-148.
MarketCheckPage ==
    /\ prog \in MarketProgs /\ pc = "list_check"
    /\ product_list' = product_list \o some_prod.offerMappingEntries
    /\ last_id' = some_prod.paging.nextPageToken
    /\ IF last_id' = ""
       THEN ReturnOfferIds([i \in DOMAIN product_list' |->
                               product_list'[i].offer.shopSku])
       ELSE pc' = "list_request" /\ UNCHANGED <<ret, offer_ids>>
    /\ UNCHANGED <<prog, raised, args, server, req, some_prod, feed,
                   watch_remnants, stocks, prices, todo, campaign, calls,
                   printed, unawaited>>

(* get_offer_ids run on its own, against any sequence of responses.        *)

SellerItems(ids) == [i \in DOMAIN ids |-> [offer_id |-> ids[i]]]
MarketItems(ids) == [i \in DOMAIN ids |-> [offer |-> [shopSku |-> ids[i]]]]

Pages == SeqsUpTo(OfferCodes, MaxPageItems)

InitListing ==
    /\ pc = "list_request" /\ raised = "none"
    /\ FnIdle
    /\ feed = <<>> /\ watch_remnants = <<>> /\ offer_ids = <<>>
    /\ stocks = <<>> /\ prices = <<>> /\ todo = <<>>
    /\ calls = <<>> /\ printed = <<>> /\ unawaited = 0
    /\ req = 0 /\ product_list = <<>> /\ last_id = ""
    /\ \E ps \in SeqsUpTo(Pages, MaxPages) :
          \/ /\ prog = "seller.get_offer_ids" /\ campaign = ""
             /\ some_prod = NoResponse
             /\ \E t \in 0..(MaxPages * MaxPageItems + 1) :
                   server = [a \in {"CLIENT_ID"} |->
                       [k \in DOMAIN ps |->
                           [items |-> SellerItems(ps[k]), total |-> t,
                            last_id |-> ToString(k)]]]
          \/ /\ prog = "market.get_offer_ids" /\ campaign = "FBS_ID"
             /\ some_prod = NoPage
             /\ \E tk \in [DOMAIN ps -> {"", "next"}] :
                   server = [a \in {"FBS_ID"} |->
                       [k \in DOMAIN ps |->
                           [offerMappingEntries |-> MarketItems(ps[k]),
                            paging |-> [nextPageToken |-> tk[k]]]]]

NextListing ==
    \/ SellerGetProductList
    \/ SellerCheckTotal
    \/ MarketGetProductList
    \/ MarketCheckPage

SpecListing == InitListing /\ [][NextListing]_vars

\* A call in progress goes on: the interpreter runs the next statement.
FairSpecListing ==
    /\ SpecListing
    /\ WF_vars(SellerGetProductList) /\ WF_vars(SellerCheckTotal)
    /\ WF_vars(MarketGetProductList) /\ WF_vars(MarketCheckPage)

-----------------------------------------------------------------------------
(* seller.main and market.main.                                            *)

SellerStockBatch == 100
SellerPriceBatch == 900
MarketStockBatch == 2000
MarketPriceBatch == 500
SellerListLimit  == 1000
MarketListLimit  == 200

WarehouseOf(c) == IF c = "FBS_ID" THEN "WAREHOUSE_FBS_ID" ELSE "WAREHOUSE_DBS_ID"

\* One request of an update endpoint, as the marketplace saw it.
Request(op, payload, ok) ==
    [op |-> op, account |-> Account, payload |-> payload, ok |-> ok]

\* seller.download_stock (market.py imports it): the rows of the spreadsheet,
\* or the exception of the download.
DownloadStock ==
    /\ prog \in Mains /\ pc = "download"
    /\ \/ /\ watch_remnants' = feed
          /\ IF prog = "seller.main"
             THEN pc' = "create_stocks" /\ UNCHANGED campaign
             ELSE pc' = "list_request" /\ campaign' = "FBS_ID"
          /\ UNCHANGED <<raised, printed>>
       \/ /\ \E kind \in NetworkErrors : Raise(kind)
          /\ UNCHANGED <<watch_remnants, campaign>>
    /\ UNCHANGED <<prog, fnVars, listVars, feed, offer_ids, stocks, prices,
                   todo, calls, unawaited>>

\* A create_stocks step that submits the entries as it builds them: what was
\* built before a row failed has gone out when the exception is raised.
SellerCreateStocksStreaming ==
    /\ prog = "seller.main" /\ pc = "create_stocks"
    /\ LET r == seller_create_stocks(watch_remnants, offer_ids)
       IN  /\ offer_ids' = r.offer_ids
           /\ calls' = calls \o
                  [k \in DOMAIN divide(r.stocks, SellerStockBatch) |->
                      Request("update_stocks",
                              divide(r.stocks, SellerStockBatch)[k], TRUE)]
           /\ IF r.error = "none"
              THEN /\ stocks' = r.stocks
                   /\ todo' = <<>>
                   /\ pc' = "create_prices"
                   /\ UNCHANGED <<raised, printed>>
              ELSE /\ Raise(r.error)
                   /\ UNCHANGED <<stocks, todo>>
    /\ UNCHANGED <<prog, fnVars, listVars, feed, watch_remnants, prices,
                   campaign, unawaited>>

\* seller.main, lines 371-372: create_stocks and the list of its batches.
SellerCreateStocks ==
    /\ prog = "seller.main" /\ pc = "create_stocks"
    /\ LET r == seller_create_stocks(watch_remnants, offer_ids)
       IN  /\ offer_ids' = r.offer_ids
           /\ IF r.error = "none"
              THEN /\ stocks' = r.stocks
                   /\ todo' = divide(r.stocks, SellerStockBatch)
                   /\ pc' = IF todo' = <<>> THEN "create_prices"
                            ELSE "update_stocks"
                   /\ UNCHANGED <<raised, printed>>
              ELSE /\ Raise(r.error)
                   /\ UNCHANGED <<stocks, todo>>
    /\ UNCHANGED <<prog, fnVars, listVars, feed, watch_remnants, prices,
                   campaign, calls, unawaited>>

\* An update loop that goes on with the next batch after a failed request.
SellerUpdateStocksGoesOn ==
    /\ prog = "seller.main" /\ pc = "update_stocks"
    /\ \E ok \in BOOLEAN :
          calls' = Append(calls, Request("update_stocks", Head(todo), ok))
    /\ todo' = Tail(todo)
    /\ pc' = IF todo' = <<>> THEN "create_prices" ELSE "update_stocks"
    /\ UNCHANGED <<prog, raised, printed, fnVars, listVars, feed,
                   watch_remnants, offer_ids, stocks, prices, campaign,
                   unawaited>>

\* seller.main, lines 372-373: update_stocks of the next batch.
SellerUpdateStocks ==
    /\ prog = "seller.main" /\ pc = "update_stocks"
    /\ \/ /\ calls' = Append(calls, Request("update_stocks", Head(todo), TRUE))
          /\ todo' = Tail(todo)
          /\ pc' = IF todo' = <<>> THEN "create_prices" ELSE "update_stocks"
          /\ UNCHANGED <<raised, printed>>
       \/ /\ calls' = Append(calls, Request("update_stocks", Head(todo), FALSE))
          /\ \E kind \in NetworkErrors : Raise(kind)
          /\ UNCHANGED todo
    /\ UNCHANGED <<prog, fnVars, listVars, feed, watch_remnants, offer_ids,
                   stocks, prices, campaign, unawaited>>

\* seller.main, line 375: the offer-id list create_prices is handed, the one
\* create_stocks was called with before.
SellerPriceIds == offer_ids

\* seller.main, lines 375-376: create_prices and the list of its batches.
SellerCreatePrices ==
    /\ prog = "seller.main" /\ pc = "create_prices"
    /\ LET r == seller_create_prices(watch_remnants, SellerPriceIds)
       IN  /\ prices' = r.prices
           /\ todo' = divide(r.prices, SellerPriceBatch)
           /\ pc' = IF todo' = <<>> THEN "finished" ELSE "update_price"
    /\ UNCHANGED <<prog, raised, printed, fnVars, listVars, feed,
                   watch_remnants, offer_ids, stocks, campaign, calls,
                   unawaited>>

\* seller.main, lines 376-377: update_price of the next batch.
SellerUpdatePrice ==
    /\ prog = "seller.main" /\ pc = "update_price"
    /\ \/ /\ calls' = Append(calls, Request("update_price", Head(todo), TRUE))
          /\ todo' = Tail(todo)
          /\ pc' = IF todo' = <<>> THEN "finished" ELSE "update_price"
          /\ UNCHANGED <<raised, printed>>
       \/ /\ calls' = Append(calls, Request("update_price", Head(todo), FALSE))
          /\ \E kind \in NetworkErrors : Raise(kind)
          /\ UNCHANGED todo
    /\ UNCHANGED <<prog, fnVars, listVars, feed, watch_remnants, offer_ids,
                   stocks, prices, campaign, unawaited>>

\* market.main, lines 333-334 and 342-343: create_stocks and its batches.
MarketCreateStocks ==
    /\ prog = "market.main" /\ pc = "create_stocks"
    /\ LET r == market_create_stocks(watch_remnants, offer_ids,
                                     WarehouseOf(campaign))
       IN  /\ offer_ids' = r.offer_ids
           /\ IF r.error = "none"
              THEN /\ stocks' = r.stocks
                   /\ todo' = divide(r.stocks, MarketStockBatch)
                   /\ pc' = IF todo' = <<>> THEN "upload_prices"
                            ELSE "update_stocks"
                   /\ UNCHANGED <<raised, printed>>
              ELSE /\ Raise(r.error)
                   /\ UNCHANGED <<stocks, todo>>
    /\ UNCHANGED <<prog, fnVars, listVars, feed, watch_remnants, prices,
                   campaign, calls, unawaited>>

\* market.main, lines 334-335 and 343-344: update_stocks of the next batch.
MarketUpdateStocks ==
    /\ prog = "market.main" /\ pc = "update_stocks"
    /\ \/ /\ calls' = Append(calls, Request("update_stocks", Head(todo), TRUE))
          /\ todo' = Tail(todo)
          /\ pc' = IF todo' = <<>> THEN "upload_prices" ELSE "update_stocks"
          /\ UNCHANGED <<raised, printed>>
       \/ /\ calls' = Append(calls, Request("update_stocks", Head(todo), FALSE))
          /\ \E kind \in NetworkErrors : Raise(kind)
          /\ UNCHANGED todo
    /\ UNCHANGED <<prog, fnVars, listVars, feed, watch_remnants, offer_ids,
                   stocks, prices, campaign, unawaited>>

\* market.main, lines 337 and 346: upload_prices is a coroutine function and
\* the call is not awaited, so it makes a coroutine object that never runs;
\* no statement of upload_prices (lines 270-274) is executed.  After the FBS
\* pass the DBS pass starts with get_offer_ids (line 340).
MarketUploadPrices ==
    /\ prog = "market.main" /\ pc = "upload_prices"
    /\ unawaited' = unawaited + 1
    /\ IF campaign = "FBS_ID"
       THEN /\ campaign' = "DBS_ID"
            /\ pc' = "list_request"
            /\ req' = 0 /\ product_list' = <<>> /\ last_id' = ""
       ELSE /\ pc' = "finished"
            /\ UNCHANGED <<campaign, req, product_list, last_id>>
    /\ UNCHANGED <<prog, raised, printed, fnVars, server, some_prod, feed,
                   watch_remnants, offer_ids, stocks, prices, todo, calls>>

(* The runs: a feed, and list endpoints that report their catalogue page   *)
(* by page with the true total.                                            *)

RunRows == {
    [Kod |-> "001", Kolichestvo |-> <<"1", "0">>, Tsena |-> Price5990],
    [Kod |-> "002", Kolichestvo |-> GT10, Tsena |-> Price12890],
    [Kod |-> "001", Kolichestvo |-> <<"x">>, Tsena |-> <<".", "5", "0">>],
    [Kod |-> "003", Kolichestvo |-> <<"x">>, Tsena |-> <<".", "5", "0">>] }

\* A catalogue of k offers.
Bulk(k) == [i \in 1..k |-> "b" \o ToString(i)]

SellerServer(ids) ==
    LET pages == divide(ids, SellerListLimit)
    IN  [k \in DOMAIN pages |->
            [items |-> SellerItems(pages[k]), total |-> Len(ids),
             last_id |-> ToString(k)]]

MarketServer(ids) ==
    LET pages == divide(ids, MarketListLimit)
    IN  [k \in DOMAIN pages |->
            [offerMappingEntries |-> MarketItems(pages[k]),
             paging |-> [nextPageToken |->
                            IF k < Len(pages) THEN ToString(k) ELSE ""]]]

Catalogues == SeqsUpTo(OfferCodes, MaxCatalogue)

Init ==
    /\ raised = "none" /\ FnIdle
    /\ req = 0 /\ product_list = <<>> /\ last_id = ""
    /\ watch_remnants = <<>> /\ offer_ids = <<>> /\ stocks = <<>>
    /\ prices = <<>> /\ todo = <<>> /\ calls = <<>> /\ printed = <<>>
    /\ unawaited = 0 /\ campaign = ""
    /\ \/ /\ prog = "seller.main" /\ pc = "list_request"
          /\ some_prod = NoResponse
          /\ \/ /\ feed \in SeqsUpTo(RunRows, MaxRunFeed)
                /\ \E c \in Catalogues :
                      server = [a \in {"CLIENT_ID"} |-> SellerServer(c)]
             \/ /\ feed = <<>>
                /\ server = [a \in {"CLIENT_ID"} |->
                                SellerServer(Bulk(SellerStockBatch + 1))]
       \/ /\ prog = "market.main" /\ pc = "download"
          /\ some_prod = NoPage
          /\ \/ /\ feed \in SeqsUpTo(RunRows, MaxRunFeed)
                /\ \E c, d \in Catalogues :
                      server = [a \in {"FBS_ID", "DBS_ID"} |->
                                   IF a = "FBS_ID" THEN MarketServer(c)
                                   ELSE MarketServer(d)]
             \/ /\ feed = <<>>
                /\ \E d \in {<<>>, Bulk(MarketStockBatch + 1)} :
                      server = [a \in {"FBS_ID", "DBS_ID"} |->
                                   IF a = "FBS_ID"
                                   THEN MarketServer(Bulk(MarketStockBatch + 1))
                                   ELSE MarketServer(d)]

Next ==
    \/ SellerGetProductList
    \/ SellerCheckTotal
    \/ MarketGetProductList
    \/ MarketCheckPage
    \/ DownloadStock
    \/ SellerCreateStocks
    \/ SellerUpdateStocks
    \/ SellerCreatePrices
    \/ SellerUpdatePrice
    \/ MarketCreateStocks
    \/ MarketUpdateStocks
    \/ MarketUploadPrices

Spec == Init /\ [][Next]_vars

-----------------------------------------------------------------------------
(* Properties of price_conversion (under SpecPrice).                       *)

\* Index of the first "." of s, Len(s) + 1 when it has none.
FirstDot(s) ==
    IF \E i \in DOMAIN s : s[i] = "."
    THEN CHOOSE i \in DOMAIN s : s[i] = "." /\ \A j \in 1..(i - 1) : s[j] # "."
    ELSE Len(s) + 1

\* The positions of s before its first "." that hold a digit.
DigitPositions(s) == {i \in 1..(FirstDot(s) - 1) : s[i] \in Range(Digits)}

\* The k-th smallest element of a set of numbers.
Kth(P, k) == CHOOSE i \in P : Cardinality({j \in P : j <= i}) = k

-----------------------------------------------------------------------------
(* Properties of divide (under SpecDivide).                                *)

RECURSIVE Flatten(_)
Flatten(ss) == IF ss = <<>> THEN <<>> ELSE Head(ss) \o Flatten(Tail(ss))

RECURSIVE SumLen(_)
SumLen(ss) == IF ss = <<>> THEN 0 ELSE Len(Head(ss)) + SumLen(Tail(ss))

\* C7: for a list of length L and a chunk size n > 0, divide yields
\* ceil(L/n) chunks, all of length n except possibly the last, which is
\* non-empty and no longer than n; the lengths sum to L and the chunks
\* concatenated in order are the list.
C7_DivideChunks ==
    (prog = "divide" /\ args.n > 0 /\ pc # "call") =>
        LET L == Len(args.lst)
            k == Len(ret)
        IN  /\ pc = "returned"
            /\ k * args.n >= L /\ (k - 1) * args.n < L
            /\ (L = 0 => k = 0)
            /\ \A c \in 1..(k - 1) : Len(ret[c]) = args.n
            /\ k > 0 => (Len(ret[k]) >= 1 /\ Len(ret[k]) <= args.n)
            /\ SumLen(ret) = L
            /\ Flatten(ret) = args.lst

C7_Witness ==
    /\ prog = "divide" /\ pc = "returned"
    /\ args.n = 2 /\ Len(args.lst) = 3
    /\ Len(ret) = 2 /\ Len(ret[2]) = 1
    /\ args.lst[1] # args.lst[2]

-----------------------------------------------------------------------------
(* Properties of create_stocks and create_prices (under SpecReconcile).    *)

StockFns == {"seller.create_stocks", "market.create_stocks"}
PriceFns == {"seller.create_prices", "market.create_prices"}

\* The offer id and the quantity of a payload entry of the function run.
EntryId(e) ==
    IF prog \in {"seller.create_stocks", "seller.create_prices"} THEN e.offer_id
    ELSE IF prog = "market.create_stocks" THEN e.sku
    ELSE e.id

EntryCount(e) ==
    IF prog = "seller.create_stocks" THEN e.stock ELSE e.items[1].count

Distinct(s) == \A i, j \in DOMAIN s : i # j => s[i] # s[j]

NumericString(q) == q # <<>> /\ \A i \in DOMAIN q : q[i] \in Range(Digits)

ParseableQuantity(q) == q = <<">", "1", "0">> \/ NumericString(q)

Numeral(c) ==
    CASE c = "0" -> 0 [] c = "1" -> 1 [] c = "2" -> 2 [] c = "3" -> 3
      [] c = "4" -> 4 [] c = "5" -> 5 [] c = "6" -> 6 [] c = "7" -> 7
      [] c = "8" -> 8 [] c = "9" -> 9

RECURSIVE Pow10(_)
Pow10(e) == IF e = 0 THEN 1 ELSE 10 * Pow10(e - 1)

RECURSIVE DecimalValue(_)
DecimalValue(q) ==
    IF q = <<>> THEN 0
    ELSE Numeral(Head(q)) * Pow10(Len(q) - 1) + DecimalValue(Tail(q))

\* The quantity policy of the specification.
NormalizedQuantity(q) ==
    IF q = <<">", "1", "0">> THEN 100
    ELSE IF q = <<"1">> THEN 0
    ELSE DecimalValue(q)

HasRow(rows, id) == \E i \in DOMAIN rows : rows[i].Kod = id

FirstRow(rows, id) ==
    rows[CHOOSE i \in DOMAIN rows :
             rows[i].Kod = id /\ \A j \in 1..(i - 1) : rows[j].Kod # id]

\* C1: for an offer-id list S of pairwise distinct ids and a feed whose
\* rows with a code of S carry a parseable quantity, create_stocks (of
\* seller.py and of market.py) returns a payload of exactly |S| entries in
\* which every id of S occurs exactly once, also when the feed holds several
\* rows with the same code.
C1_StockPayloadOnePerOffer ==
    (/\ prog \in StockFns
     /\ Distinct(args.offer_ids)
     /\ \A i \in DOMAIN args.watch_remnants :
            args.watch_remnants[i].Kod \in Range(args.offer_ids)
                => ParseableQuantity(args.watch_remnants[i].Kolichestvo)) =>
        /\ pc = "returned"
        /\ Len(ret) = Len(args.offer_ids)
        /\ \A k \in DOMAIN args.offer_ids :
               Cardinality({j \in DOMAIN ret :
                               EntryId(ret[j]) = args.offer_ids[k]}) = 1

C1_Witness ==
    /\ prog \in StockFns /\ pc = "returned"
    /\ Len(args.offer_ids) = 2 /\ Distinct(args.offer_ids)
    /\ Len(args.watch_remnants) = 2
    /\ args.watch_remnants[1].Kod = args.watch_remnants[2].Kod
    /\ args.watch_remnants[1].Kod \in Range(args.offer_ids)
    /\ Len(ret) = 2

\* C4: for every id of the offer-id list (pairwise distinct ids), the
\* quantity of its stock payload entry is the normalized quantity of the
\* first feed row with that code (">10" gives 100, "1" gives 0, another
\* numeric string its integer value) and 0 when the feed has no such row.
C4_StockQuantities ==
    (prog \in StockFns /\ pc = "returned" /\ Distinct(args.offer_ids)) =>
        /\ \A k \in DOMAIN args.offer_ids :
               \E j \in DOMAIN ret : EntryId(ret[j]) = args.offer_ids[k]
        /\ \A j \in DOMAIN ret :
               LET id == EntryId(ret[j])
               IN  EntryCount(ret[j]) =
                       IF HasRow(args.watch_remnants, id)
                       THEN NormalizedQuantity(
                                FirstRow(args.watch_remnants, id).Kolichestvo)
                       ELSE 0
        /\ \A j \in DOMAIN ret :
               LET id == EntryId(ret[j])
               IN  /\ (/\ HasRow(args.watch_remnants, id)
                       /\ FirstRow(args.watch_remnants, id).Kolichestvo
                              = <<"1", "0">>) => EntryCount(ret[j]) = 10
                   /\ (/\ HasRow(args.watch_remnants, id)
                       /\ FirstRow(args.watch_remnants, id).Kolichestvo
                              = <<"4", "2">>) => EntryCount(ret[j]) = 42

C4_Witness ==
    /\ prog = "seller.create_stocks" /\ pc = "returned"
    /\ args.offer_ids = <<"001", "002">>
    /\ Len(args.watch_remnants) = 2
    /\ args.watch_remnants[1].Kod = "001"
    /\ args.watch_remnants[1].Kolichestvo = <<">", "1", "0">>
    /\ args.watch_remnants[2].Kod = "001"
    /\ args.watch_remnants[2].Kolichestvo = <<"1">>
    /\ ret = <<[offer_id |-> "001", stock |-> 100],
               [offer_id |-> "002", stock |-> 0]>>

\* What the function run gives on other arguments: <<payload, exception>>.
Outcome(fn, rows, ids) ==
    CASE fn = "seller.create_stocks" ->
             LET r == seller_create_stocks(rows, ids) IN <<r.stocks, r.error>>
      [] fn = "market.create_stocks" ->
             LET r == market_create_stocks(rows, ids, "WAREHOUSE_FBS_ID")
             IN  <<r.stocks, r.error>>
      [] fn = "seller.create_prices" ->
             LET r == seller_create_prices(rows, ids) IN <<r.prices, r.error>>
      [] fn = "market.create_prices" ->
             LET r == market_create_prices(rows, ids) IN <<r.prices, r.error>>

Recognized(w) == w.Kod \in Range(args.offer_ids)

\* C8: a feed row whose code is not in the offer-id list is dropped: no
\* payload (stock or price) holds an entry for its code, and its quantity
\* and price are never normalized: a malformed one raises no error and
\* leaves the payload what it is without the row.
C8_UnrecognizedRowsDropped ==
    (prog \in StockFns \cup PriceFns /\ pc # "call") =>
        LET R == args.watch_remnants
        IN  /\ \A i \in DOMAIN R :
                   ~Recognized(R[i]) =>
                       \A j \in DOMAIN ret : EntryId(ret[j]) # R[i].Kod
            /\ (\A i \in DOMAIN R :
                    Recognized(R[i]) =>
                        /\ ParseableQuantity(R[i].Kolichestvo)
                        /\ DigitPositions(R[i].Tsena) # {})
                   => pc = "returned"
            /\ <<ret, raised>> =
                   Outcome(prog, SelectSeq(R, Recognized), args.offer_ids)

C8_Witness ==
    /\ prog = "market.create_prices" /\ pc = "returned"
    /\ args.offer_ids = <<"001">>
    /\ Len(args.watch_remnants) = 2
    /\ args.watch_remnants[1].Kod = "003"
    /\ args.watch_remnants[1].Tsena = <<".", "5", "0">>
    /\ args.watch_remnants[2].Kod = "001"
    /\ ret = <<[id |-> "001", price |-> [value |-> 5990, currencyId |-> "RUR"]]>>

\* The rows of a feed with the code id.
RowsWith(rows, id) == {r \in DOMAIN rows : rows[r].Kod = id}

\* The positions of ids that are left once every row of the feed has taken
\* away the first remaining occurrence of its code.
KeptPositions(rows, ids) ==
    {i \in DOMAIN ids :
        Cardinality({j \in 1..i : ids[j] = ids[i]})
            > Cardinality(RowsWith(rows, ids[i]))}

\* The elements of s at the positions P, in increasing position.
Restrict(s, P) == [k \in 1..Cardinality(P) |-> s[Kth(P, k)]]

\* C11: once create_stocks (of seller.py and of market.py) has returned, the
\* caller's offer-id list holds exactly the ids of the original list that no
\* feed row matched, in their original order, each matching row having
\* removed one occurrence of its code (for pairwise distinct ids: the ids
\* whose code no row of the feed carries); create_prices leaves the caller's
\* list as it was; neither function changes the rows of the feed.
C11_OfferIdsFrame ==
    /\ (prog \in StockFns /\ pc = "returned") =>
           /\ offer_ids = Restrict(args.offer_ids,
                                   KeptPositions(args.watch_remnants,
                                                 args.offer_ids))
           /\ Distinct(args.offer_ids) =>
                  /\ Range(offer_ids) =
                         {id \in Range(args.offer_ids) :
                             ~HasRow(args.watch_remnants, id)}
                  /\ Distinct(offer_ids)
    /\ (prog \in PriceFns /\ pc # "call") => offer_ids = args.offer_ids
    /\ (prog \in StockFns \cup PriceFns) =>
           watch_remnants = args.watch_remnants

C11_Witness ==
    /\ prog \in StockFns /\ pc = "returned"
    /\ args.offer_ids = <<"002", "001">>
    /\ Len(args.watch_remnants) = 2
    /\ args.watch_remnants[1].Kod = "001"
    /\ args.watch_remnants[2].Kod = "001"
    /\ offer_ids = <<"002">>

\* The rows of a feed whose code is in ids.
MatchedPositions(rows, ids) == {i \in DOMAIN rows : rows[i].Kod \in Range(ids)}

\* The digits of a price string before its first ".".
PriceDigits(p) == Restrict(p, DigitPositions(p))

\* The price of a payload entry of the function run, as the row gives it.
EntryPriceIs(e, w) ==
    IF prog = "seller.create_prices" THEN e.price = PriceDigits(w.Tsena)
    ELSE /\ e.price.value = DecimalValue(PriceDigits(w.Tsena))
         /\ e.price.currencyId = "RUR"

\* C14: create_prices (of seller.py and of market.py) returns one entry per
\* feed row whose code is in the offer-id list, in feed order, each with the
\* price of its row, and no entry for an id the feed lacks: k rows with the
\* same recognized code give k price entries for the id, whereas the stock
\* payload (pairwise distinct ids) holds one entry for it, with the quantity
\* of the first of these rows.
C14_PricePerMatchingRow ==
    /\ (prog \in PriceFns /\ pc = "returned") =>
           LET R == args.watch_remnants
               P == MatchedPositions(R, args.offer_ids)
           IN  /\ Len(ret) = Cardinality(P)
               /\ \A k \in DOMAIN ret :
                      /\ EntryId(ret[k]) = R[Kth(P, k)].Kod
                      /\ EntryPriceIs(ret[k], R[Kth(P, k)])
                      /\ HasRow(R, EntryId(ret[k]))
               /\ \A i \in DOMAIN args.offer_ids :
                      Cardinality({j \in DOMAIN ret :
                                      EntryId(ret[j]) = args.offer_ids[i]})
                          = Cardinality(RowsWith(R, args.offer_ids[i]))
    /\ (prog \in StockFns /\ pc = "returned" /\ Distinct(args.offer_ids)) =>
           LET R == args.watch_remnants
           IN  \A i \in DOMAIN args.offer_ids :
                   LET E == {j \in DOMAIN ret :
                                EntryId(ret[j]) = args.offer_ids[i]}
                   IN  /\ Cardinality(E) = 1
                       /\ HasRow(R, args.offer_ids[i]) =>
                              \A j \in E :
                                  EntryCount(ret[j]) = NormalizedQuantity(
                                      FirstRow(R, args.offer_ids[i]).Kolichestvo)

\* Two rows with the same recognized code and different prices: two price
\* entries for the one id, in feed order.
C14_Witness ==
    /\ prog = "market.create_prices" /\ pc = "returned"
    /\ args.offer_ids = <<"001", "002">>
    /\ Len(args.watch_remnants) = 2
    /\ args.watch_remnants[1].Kod = "001"
    /\ args.watch_remnants[2].Kod = "001"
    /\ args.watch_remnants[1].Tsena = Price12890
    /\ args.watch_remnants[2].Tsena = Price5990
    /\ ret = <<[id |-> "001", price |-> [value |-> 12890, currencyId |-> "RUR"]],
               [id |-> "001", price |-> [value |-> 5990, currencyId |-> "RUR"]]>>

-----------------------------------------------------------------------------
(* Properties of get_offer_ids (under FairSpecListing).                    *)

\* The ids of the items of the responses received so far, in page order.
ReturnedIds ==
    IF prog \in SellerProgs
    THEN LET items == Flatten([k \in 1..req |->
                                  SellerResponse("CLIENT_ID", k).items])
         IN  [i \in DOMAIN items |-> items[i].offer_id]
    ELSE LET items == Flatten([k \in 1..req |->
                                  MarketResponse(campaign, k).offerMappingEntries])
         IN  [i \in DOMAIN items |-> items[i].offer.shopSku]

ListingOver == pc \in {"returned", "raised"}

\* C10: the listing ends once the marketplace has no more items to return
\* (seller.get_offer_ids after finitely many requests whatever total the
\* responses report, market.get_offer_ids at the first response without a
\* next-page token), and what it returns are the ids of all returned items
\* in page order.
C10_ListingTerminates ==
    /\ <>ListingOver
    /\ [](pc = "returned" => ret = ReturnedIds)

\* The parts of C10 the code meets: market.get_offer_ids ends, and a listing
\* that returns gives the ids of the items received, in page order.
C10_MarketListingTerminates ==
    /\ (prog = "market.get_offer_ids") => <>ListingOver
    /\ [](pc = "returned" => ret = ReturnedIds)

-----------------------------------------------------------------------------
(* Properties of the runs of seller.main and market.main (under Spec).     *)

\* The offer ids account a's list endpoint reports, in page order.
Listed(a) ==
    IF a = "CLIENT_ID"
    THEN LET items == Flatten([k \in DOMAIN server[a] |-> server[a][k].items])
         IN  [i \in DOMAIN items |-> items[i].offer_id]
    ELSE LET items == Flatten([k \in DOMAIN server[a] |->
                                  server[a][k].offerMappingEntries])
         IN  [i \in DOMAIN items |-> items[i].offer.shopSku]

\* The requests that submit the batches of a payload to an account.
Submissions(op, a, batches) ==
    [k \in DOMAIN batches |->
        [op |-> op, account |-> a, payload |-> batches[k], ok |-> TRUE]]

IsPrefix(s, t) == Len(s) <= Len(t) /\ SubSeq(t, 1, Len(s)) = s

\* C2: in a run of seller.main the submitted price payload holds an entry
\* for every feed row whose code is among the offer ids listed for the run;
\* with the ids 001 and 002 listed and the one feed row (001, "10",
\* "5'990.00 rub.") the stock payload is [001: 10, 002: 0] and the price
\* payload [001: 5990].
C2_SellerPricesForListedOffers ==
    (prog = "seller.main" /\ pc = "finished") =>
        /\ \A i \in DOMAIN feed :
               feed[i].Kod \in Range(Listed("CLIENT_ID")) =>
                   \E c \in DOMAIN calls :
                       /\ calls[c].op = "update_price"
                       /\ \E j \in DOMAIN calls[c].payload :
                              calls[c].payload[j].offer_id = feed[i].Kod
        /\ (/\ Listed("CLIENT_ID") = <<"001", "002">>
            /\ feed = <<[Kod |-> "001", Kolichestvo |-> <<"1", "0">>,
                         Tsena |-> Price5990]>>) =>
               /\ stocks = <<[offer_id |-> "001", stock |-> 10],
                             [offer_id |-> "002", stock |-> 0]>>
               /\ Len(prices) = 1
               /\ prices[1].offer_id = "001"
               /\ prices[1].price = <<"5", "9", "9", "0">>

\* The requests a pass of market.main over campaign a is to make.
MarketPass(a) ==
    Submissions("update_stocks", a,
                divide(market_create_stocks(feed, Listed(a),
                                            WarehouseOf(a)).stocks,
                       MarketStockBatch))
    \o Submissions("update_price", a,
                   divide(market_create_prices(feed, Listed(a)).prices,
                          MarketPriceBatch))

\* C3: a run of market.main that meets no error has, for FBS and then for
\* DBS, submitted every stock batch and then every price batch of the
\* campaign, in this order; update_price has been called for each price
\* batch of each campaign when the run ends.
C3_MarketRunSubmitsStocksAndPrices ==
    (/\ prog = "market.main" /\ pc = "finished"
     /\ market_create_prices(feed, Listed("FBS_ID")).error = "none"
     /\ market_create_prices(feed, Listed("DBS_ID")).error = "none") =>
        calls = MarketPass("FBS_ID") \o MarketPass("DBS_ID")

\* C5: an exception raised at any step of a run (feed download, listing,
\* reconciliation, submission) is caught by the handler of main exactly
\* once, reported with its tag, and ends the run, in seller.main and in
\* market.main.
C5_EveryExceptionCaughtOnce ==
    (prog \in Mains /\ raised # "none") =>
        /\ pc = "caught"
        /\ printed = <<Tag(raised)>>

\* The batches a run submits, in order: those of the payloads it built.
RunBatches ==
    IF prog = "seller.main"
    THEN Submissions("update_stocks", "CLIENT_ID",
                     divide(stocks, SellerStockBatch))
         \o Submissions("update_price", "CLIENT_ID",
                        divide(prices, SellerPriceBatch))
    ELSE Submissions("update_stocks", "FBS_ID",
                     divide(market_create_stocks(
                                feed, Listed("FBS_ID"),
                                WarehouseOf("FBS_ID")).stocks,
                            MarketStockBatch))
         \o Submissions("update_stocks", "DBS_ID",
                        divide(market_create_stocks(
                                   feed, Listed("DBS_ID"),
                                   WarehouseOf("DBS_ID")).stocks,
                               MarketStockBatch))

RunOver == pc \in {"finished", "caught", "crashed"}

\* C6: batches are submitted one after another in payload order, each at
\* most once; after the submission of batch k failed, the batches before it
\* stay applied (no request is withdrawn or compensated), batch k is not
\* retried, and no later batch and no later step of the run issues any
\* request to the marketplace.
C6_NoRetryNoRollback ==
    /\ [](prog \in Mains =>
            /\ IsPrefix([k \in DOMAIN calls |->
                            [calls[k] EXCEPT !.ok = TRUE]], RunBatches)
            /\ \A k \in 1..(Len(calls) - 1) : calls[k].ok
            /\ (calls # <<>> /\ ~calls[Len(calls)].ok) => pc = "caught")
    /\ [][/\ IsPrefix(calls, calls')
          /\ Len(calls') <= Len(calls) + 1
          /\ RunOver => (calls' = calls /\ req' = req)]_vars

C6_Witness ==
    /\ prog = "seller.main" /\ pc = "caught"
    /\ Len(calls) = 2
    /\ calls[1].ok /\ ~calls[2].ok
    /\ calls[1].op = "update_stocks" /\ calls[2].op = "update_stocks"
    /\ Len(calls[1].payload) = SellerStockBatch

\* The most items the endpoint of a request accepts.
ItemLimit(op, account) ==
    IF account = "CLIENT_ID"
    THEN (IF op = "update_stocks" THEN 100 ELSE 1000)
    ELSE (IF op = "update_stocks" THEN 2000 ELSE 500)

\* C12: in every run, every batch submitted to an update endpoint is within
\* the endpoint's item limit (seller.py: 100 items per stock request, 1000
\* per price request; market.py: 2000 per stock request, 500 per price
\* request), and no submitted batch is empty; the batch sizes the payloads
\* are cut with are within the limits too.
C12_BatchesWithinLimits ==
    prog \in Mains =>
        /\ \A k \in DOMAIN calls :
               /\ calls[k].op \in {"update_stocks", "update_price"}
               /\ Len(calls[k].payload) >= 1
               /\ Len(calls[k].payload)
                      <= ItemLimit(calls[k].op, calls[k].account)
        /\ SellerStockBatch <= ItemLimit("update_stocks", "CLIENT_ID")
        /\ SellerPriceBatch <= ItemLimit("update_price", "CLIENT_ID")
        /\ MarketStockBatch <= ItemLimit("update_stocks", "FBS_ID")
        /\ MarketStockBatch <= ItemLimit("update_stocks", "DBS_ID")
        /\ MarketPriceBatch <= ItemLimit("update_price", "FBS_ID")

\* A run of market.main whose stock payloads do not fit one request: a full
\* batch and the rest, for each campaign.
C12_Witness ==
    /\ prog = "market.main" /\ pc = "finished"
    /\ Len(calls) = 4
    /\ \A k \in {1, 3} :
           /\ Len(calls[k].payload) = 2000
           /\ Len(calls[k + 1].payload) = 1
    /\ calls[1].account = "FBS_ID" /\ calls[3].account = "DBS_ID"

\* The exception the reconciliation of the stock payload of account a ends
\* with in this run ("none" when every matched row is normalized).
StockReconciliation(a) ==
    IF a = "CLIENT_ID"
    THEN seller_create_stocks(feed, Listed(a)).error
    ELSE market_create_stocks(feed, Listed(a), WarehouseOf(a)).error

\* The requests made before the payload under reconciliation was begun.
EarlierPayloads ==
    IF prog = "market.main" /\ campaign = "DBS_ID"
    THEN Submissions("update_stocks", "FBS_ID",
                     divide(market_create_stocks(
                                feed, Listed("FBS_ID"),
                                WarehouseOf("FBS_ID")).stocks,
                            MarketStockBatch))
    ELSE <<>>

\* C13: a payload is reconciled in full before its first batch is
\* submitted: when the normalization of a matched row fails in create_stocks
\* or create_prices, no batch of that payload has been submitted and none is
\* submitted afterwards, and the requests of the payloads submitted earlier
\* in the run (stocks before prices, FBS before DBS) are what they were.
C13_ReconciledBeforeSubmitted ==
    /\ [](prog \in Mains =>
            /\ \A k \in DOMAIN calls :
                   calls[k].op = "update_stocks" =>
                       StockReconciliation(calls[k].account) = "none"
            /\ raised = "ValueError" =>
                   /\ pc = "caught"
                   /\ calls = EarlierPayloads
                   /\ \A k \in DOMAIN calls : calls[k].account # Account)
    /\ [][raised = "ValueError" => calls' = calls]_vars
    /\ [][(raised = "none" /\ raised' = "ValueError") => calls' = calls]_vars

\* The FBS stock payload went out, then a row of the DBS payload failed.
C13_Witness ==
    /\ prog = "market.main" /\ pc = "caught" /\ raised = "ValueError"
    /\ campaign = "DBS_ID"
    /\ calls # <<>>
    /\ \A k \in DOMAIN calls : calls[k].account = "FBS_ID" /\ calls[k].ok

====
